---- MODULE Spec2Model ----
(***************************************************************************)
(* Model of ad2/assignment_1/binary_mult.py: divide-and-conquer binary     *)
(* multiplication over Python lists of bits (MSB first).                   *)
(*                                                                         *)
(* Python lists are mutable objects passed by reference, so the model      *)
(* keeps an explicit heap: a sequence of bit sequences, a list object      *)
(* being its index (its "ref").  Every function of the source is an        *)
(* operator from a heap (and refs) to a heap; the body of binary_mult is   *)
(* cut into one operator per source line, and the same line operators      *)
(* drive both the recursive calls (evaluated in one step) and the actions  *)
(* of the outermost invocation (one action per line).                      *)
(***************************************************************************)
EXTENDS Integers, Sequences, FiniteSets

\* Longest valid (equal-length) operands given to binary_mult.
MaxLen == 6
\* Longest operands of a binary_mult call that breaks the precondition.
MaxBadLen == 3
\* Longest operands given directly to binary_add / pad_same_length.
MaxOpLen == 4

Bit == {0, 1}
BitSeqs(n) == [1..n -> Bit]

VARIABLES
    prog,    \* the function the caller invoked
    pc,      \* position of the outermost invocation: the line about to run
    heap,    \* the list objects: heap[r] is the contents of list r
    env,     \* local names of the outermost binary_mult frame -> ref (0: unbound)
    length,  \* the local `length` of the outermost binary_mult frame
    ret,     \* ref of the returned list (0: nothing returned)
    entry,   \* contents of the caller's two lists when the call was made
    passed   \* refs handed to binary_add so far by the outermost frame

vars == <<prog, pc, heap, env, length, ret, entry, passed>>

----------------------------------------------------------------------------
(* list primitives and helpers *)

\* [0]*n
Zeros(n) == [i \in 1..n |-> 0]

\* list.reverse(), on the contents
Reverse(s) == [i \in 1..Len(s) |-> s[Len(s) + 1 - i]]

\* X.reverse(): list X of heap h reversed in place
reverse(h, X) == [h EXCEPT ![X] = Reverse(h[X])]

\* for i in xrange(0,n): X.insert(0,0)
prepend_n_times(h, X, n) == [h EXCEPT ![X] = Zeros(n) \o h[X]]

\* for i in xrange(0,n): X.pop(0)
pop_n_times(h, X, n) == [h EXCEPT ![X] = SubSeq(h[X], n + 1, Len(h[X]))]

\* Y = [0]*n built by inserts; X += Y (in place)
append_n_times(h, X, n) == [h EXCEPT ![X] = h[X] \o Zeros(n)]

\* pad_same_length, lines 67-74: the shorter list is padded to the longer
Equalize(h, X, Y) ==
    IF Len(h[X]) > Len(h[Y])
      THEN prepend_n_times(h, Y, Len(h[X]) - Len(h[Y]))
      ELSE prepend_n_times(h, X, Len(h[Y]) - Len(h[X]))

\* EvenUp with the second insert forgotten: only X gets the extra zero.
EvenUp_OnlyX(h, X, Y) ==
    IF Len(h[X]) % 2 # 0 /\ Len(h[X]) # 1
      THEN prepend_n_times(h, X, 1)
      ELSE h

\* pad_same_length, lines 75-77: X.insert(0,0); Y.insert(0,0) when len(X) is
\* odd and not 1
EvenUp(h, X, Y) ==
    IF Len(h[X]) % 2 # 0 /\ Len(h[X]) # 1
      THEN prepend_n_times(prepend_n_times(h, X, 1), Y, 1)
      ELSE h

pad_same_length(h, X, Y) == EvenUp(Equalize(h, X, Y), X, Y)

length_modifier(h, X, len) ==
    IF Len(h[X]) < len * 2
      THEN prepend_n_times(h, X, len * 2 - Len(h[X]))
      ELSE pop_n_times(h, X, Len(h[X]) - len * 2)

\* AddLoop without lines 100-101: the final carry is dropped.
RECURSIVE AddLoop_DropCarry(_, _, _, _, _)
AddLoop_DropCarry(X, Y, index, carry, result) ==
    IF index > Len(X)
      THEN result
      ELSE AddLoop_DropCarry(X, Y, index + 1,
                   IF Y[index] + X[index] + carry > 1 THEN 1 ELSE 0,
                   [result EXCEPT ![index] = (Y[index] + X[index] + carry) % 2])

\* The loop of binary_add (lines 92-101) over the reversed (LSB first)
\* operands: (result, carry) is the state before iteration `index`; the value
\* is the final result list, the carry appended when it is 1.
RECURSIVE AddLoop(_, _, _, _, _)
AddLoop(X, Y, index, carry, result) ==
    IF index > Len(X)
      THEN IF carry = 1 THEN Append(result, carry) ELSE result
      ELSE AddLoop(X, Y, index + 1,
                   IF Y[index] + X[index] + carry > 1 THEN 1 ELSE 0,
                   [result EXCEPT ![index] = (Y[index] + X[index] + carry) % 2])

\* AddReversed that reverses its operands back before it returns.
AddReversed_Restores(h, X, Y) ==
    [heap |-> Append(reverse(reverse(h, X), Y),
                     Reverse(AddLoop(h[X], h[Y], 1, 0, Zeros(Len(h[X]))))),
     ret |-> Len(h) + 1]

\* binary_add, lines 88-103, on the padded and reversed operands: the new
\* result list is allocated, reversed to MSB first, and returned.
AddReversed(h, X, Y) ==
    [heap |-> Append(h, Reverse(AddLoop(h[X], h[Y], 1, 0, Zeros(Len(h[X]))))),
     ret |-> Len(h) + 1]

\* Returns the heap after the call and the ref of the new result list.
binary_add(h, X, Y) ==
    AddReversed(reverse(reverse(pad_same_length(h, X, Y), X), Y), X, Y)

----------------------------------------------------------------------------
(* binary_mult, line by line.  A frame f is the state of one invocation:   *)
(* f.heap, f.env (local name -> ref), f.length, f.ret (the list returned)  *)
(* and f.err (an exception is leaving the function).                       *)

NoEnv ==
    [A |-> 0, B |-> 0, A1 |-> 0, A2 |-> 0, B1 |-> 0, B2 |-> 0,
     A1B1 |-> 0, A1B2 |-> 0, A2B1 |-> 0, A2B2 |-> 0, cross_sum |-> 0,
     Left |-> 0, Middle |-> 0, Right |-> 0, mid_sum |-> 0, final_sum |-> 0]

\* Line18 preceded by pad_same_length(A, B) on the arguments themselves.
Line18_PadsArguments(h, A, B) ==
    [heap |-> pad_same_length(h, A, B), env |-> [NoEnv EXCEPT !.A = A, !.B = B],
     length |-> Len(pad_same_length(h, A, B)[A]), ret |-> 0, err |-> FALSE]

\* Entry with arguments A, B (refs), then `length = len(A)`.
Line18(h, A, B) ==
    [heap |-> h, env |-> [NoEnv EXCEPT !.A = A, !.B = B],
     length |-> Len(h[A]), ret |-> 0, err |-> FALSE]

\* The two new lists S[:len(S)/2], S[len(S)/2:] appended to heap h.
Halves(h, S) ==
    h \o <<SubSeq(S, 1, Len(S) \div 2), SubSeq(S, Len(S) \div 2 + 1, Len(S))>>

\* A1, A2 = (A[:len(A)/2], A[len(A)/2:])
Line21(f) ==
    [f EXCEPT !.heap = Halves(f.heap, f.heap[f.env.A]),
              !.env.A1 = Len(f.heap) + 1,
              !.env.A2 = Len(f.heap) + 2]

\* B1, B2 = (B[:len(B)/2], B[len(B)/2:])
Line22(f) ==
    [f EXCEPT !.heap = Halves(f.heap, f.heap[f.env.B]),
              !.env.B1 = Len(f.heap) + 1,
              !.env.B2 = Len(f.heap) + 2]

Line24(f) == [f EXCEPT !.heap = pad_same_length(f.heap, f.env.A1, f.env.B1)]
Line25(f) == [f EXCEPT !.heap = pad_same_length(f.heap, f.env.A1, f.env.B2)]
\* Line26 with B2 written for B1
Line26_CopyPaste(f) == [f EXCEPT !.heap = pad_same_length(f.heap, f.env.A2, f.env.B2)]
Line26(f) == [f EXCEPT !.heap = pad_same_length(f.heap, f.env.A2, f.env.B1)]
Line27(f) == [f EXCEPT !.heap = pad_same_length(f.heap, f.env.A2, f.env.B2)]

\* name = <call>, r being what the call made of the heap and returned (or
\* the exception it raised)
Bind(f, name, r) ==
    [f EXCEPT !.heap = r.heap, !.env[name] = r.ret, !.err = r.err]

RECURSIVE binary_mult(_, _, _)

Line29(f) == Bind(f, "A1B1", binary_mult(f.heap, f.env.A1, f.env.B1))
Line30(f) == Bind(f, "A1B2", binary_mult(f.heap, f.env.A1, f.env.B2))
Line31(f) == Bind(f, "A2B1", binary_mult(f.heap, f.env.A2, f.env.B1))
Line32(f) == Bind(f, "A2B2", binary_mult(f.heap, f.env.A2, f.env.B2))

\* name = binary_add(X, Y)
BindSum(f, name, r) == [f EXCEPT !.heap = r.heap, !.env[name] = r.ret]

\* cross_sum = binary_add(A1B2, A2B1)
Line34(f) == BindSum(f, "cross_sum", binary_add(f.heap, f.env.A1B2, f.env.A2B1))

\* Line36 shifting by 2*length
Line36_DoubleShift(f) ==
    [f EXCEPT !.heap = append_n_times(f.heap, f.env.A1B1, 2 * f.length),
              !.env.Left = f.env.A1B1]

\* Left = append_n_times(A1B1, length): Left is the list A1B1 itself
Line36(f) ==
    [f EXCEPT !.heap = append_n_times(f.heap, f.env.A1B1, f.length),
              !.env.Left = f.env.A1B1]

\* Line37 shifting by length instead of length/2
Line37_FullShift(f) ==
    [f EXCEPT !.heap = append_n_times(f.heap, f.env.cross_sum, f.length),
              !.env.Middle = f.env.cross_sum]

\* Middle = append_n_times(cross_sum, length/2): Middle is the list cross_sum
Line37(f) ==
    [f EXCEPT !.heap = append_n_times(f.heap, f.env.cross_sum, f.length \div 2),
              !.env.Middle = f.env.cross_sum]

\* Right = A2B2
Line38(f) == [f EXCEPT !.env.Right = f.env.A2B2]

\* mid_sum = binary_add(Left, Middle)
Line40(f) == BindSum(f, "mid_sum", binary_add(f.heap, f.env.Left, f.env.Middle))

\* final_sum = binary_add(mid_sum, Right)
Line41(f) == BindSum(f, "final_sum", binary_add(f.heap, f.env.mid_sum, f.env.Right))

\* length_modifier(final_sum, length)
Line43(f) == [f EXCEPT !.heap = length_modifier(f.heap, f.env.final_sum, f.length)]

\* return final_sum
Line44(f) == [f EXCEPT !.ret = f.env.final_sum]

\* return [A[0]*B[0]]: IndexError when A or B is empty, else a new list
Line46(f) ==
    IF Len(f.heap[f.env.A]) = 0 \/ Len(f.heap[f.env.B]) = 0
      THEN [f EXCEPT !.err = TRUE]
      ELSE [f EXCEPT !.heap = Append(f.heap, <<f.heap[f.env.A][1] * f.heap[f.env.B][1]>>),
                     !.ret = Len(f.heap) + 1]

\* lines 21-27
Split(f) == Line27(Line26(Line25(Line24(Line22(Line21(f))))))

\* Lines 30, 31, 32 and 34 are reached only if the call of the line before
\* raised no exception; otherwise the exception leaves the function.
Reach30(f) == IF f.err THEN f ELSE Line30(f)
Reach31(f) == IF f.err THEN f ELSE Line31(f)
Reach32(f) == IF f.err THEN f ELSE Line32(f)

\* lines 29-32
Products(f) == Reach32(Reach31(Reach30(Line29(f))))

\* lines 34-44
Combine(f) ==
    IF f.err THEN f
    ELSE Line44(Line43(Line41(Line40(Line38(Line37(Line36(Line34(f))))))))

\* lines 20-46: the body after `length = len(A)`
Body(f) ==
    IF f.length > 1 THEN Combine(Products(Split(f))) ELSE Line46(f)

\* What a caller whose heap was h sees when the invocation ends in frame f:
\* its own lists as the callee left them and, unless an exception left the
\* callee, the returned list.  The callee's other locals are unreachable
\* and are dropped.
Exit(h, f) ==
    IF f.err
      THEN [heap |-> SubSeq(f.heap, 1, Len(h)), ret |-> 0, err |-> TRUE]
      ELSE [heap |-> Append(SubSeq(f.heap, 1, Len(h)), f.heap[f.ret]),
            ret |-> Len(h) + 1, err |-> FALSE]

binary_mult(h, A, B) == Exit(h, Body(Line18(h, A, B)))

\* The local names whose lists the line at position l reads.
LineReads(l) ==
    CASE l \in {"l18", "l21"} -> {"A"}
      [] l = "l22" -> {"B"}
      [] l \in {"l24", "l29"} -> {"A1", "B1"}
      [] l \in {"l25", "l30"} -> {"A1", "B2"}
      [] l \in {"l26", "l31"} -> {"A2", "B1"}
      [] l \in {"l27", "l32"} -> {"A2", "B2"}
      [] l = "l34" -> {"A1B2", "A2B1"}
      [] l = "l36" -> {"A1B1"}
      [] l = "l37" -> {"cross_sum"}
      [] l = "l38" -> {"A2B2"}
      [] l = "l40" -> {"Left", "Middle"}
      [] l = "l41" -> {"mid_sum", "Right"}
      [] l \in {"l43", "l44"} -> {"final_sum"}
      [] l = "l46" -> {"A", "B"}
      [] OTHER -> {}

\* value of a bit sequence, MSB first
RECURSIVE value(_)
value(s) == IF Len(s) = 0 THEN 0 ELSE 2 * value(SubSeq(s, 1, Len(s) - 1)) + s[Len(s)]

----------------------------------------------------------------------------
(* The caller: it owns two lists (refs 1 and 2) and calls one function.    *)

ValidLens == {p \in (1..MaxLen) \X (1..MaxLen) : p[1] = p[2]}
BadLens == {p \in (0..MaxBadLen) \X (0..MaxBadLen) : p[1] # p[2] \/ p[1] = 0}
OpLens == (0..MaxOpLen) \X (0..MaxOpLen)

Lens(p) ==
    IF p = "binary_mult" THEN ValidLens \cup BadLens ELSE OpLens

Init ==
    /\ prog \in {"binary_mult", "binary_add", "pad_same_length"}
    /\ pc = IF prog = "binary_mult" THEN "l18" ELSE "call"
    /\ \E p \in Lens(prog) : \E X \in BitSeqs(p[1]), Y \in BitSeqs(p[2]) :
          /\ heap = <<X, Y>>
          /\ entry = <<X, Y>>
    /\ env = NoEnv
    /\ length = 0
    /\ ret = 0
    /\ passed = {}

\* the outermost binary_mult frame
Frame == [heap |-> heap, env |-> env, length |-> length, ret |-> ret, err |-> FALSE]

\* The line at `from` takes the frame to g; control goes on to `to`, or the
\* exception of a callee leaves the function.
Step(from, to, g) ==
    /\ prog = "binary_mult"
    /\ pc = from
    /\ heap' = g.heap
    /\ env' = g.env
    /\ length' = g.length
    /\ ret' = g.ret
    /\ pc' = IF g.err THEN "raised" ELSE to
    /\ UNCHANGED <<prog, entry>>

\* lines 18, 20: length = len(A); if length > 1
Enter ==
    /\ Step("l18", IF Line18(heap, 1, 2).length > 1 THEN "l21" ELSE "l46",
            Line18(heap, 1, 2))
    /\ UNCHANGED passed

SplitA == Step("l21", "l22", Line21(Frame)) /\ UNCHANGED passed
SplitB == Step("l22", "l24", Line22(Frame)) /\ UNCHANGED passed
PadA1B1 == Step("l24", "l25", Line24(Frame)) /\ UNCHANGED passed
PadA1B2 == Step("l25", "l26", Line25(Frame)) /\ UNCHANGED passed
PadA2B1 == Step("l26", "l27", Line26(Frame)) /\ UNCHANGED passed
PadA2B2 == Step("l27", "l29", Line27(Frame)) /\ UNCHANGED passed
MultA1B1 == Step("l29", "l30", Line29(Frame)) /\ UNCHANGED passed
MultA1B2 == Step("l30", "l31", Line30(Frame)) /\ UNCHANGED passed
MultA2B1 == Step("l31", "l32", Line31(Frame)) /\ UNCHANGED passed
MultA2B2 == Step("l32", "l34", Line32(Frame)) /\ UNCHANGED passed
CrossSum ==
    /\ Step("l34", "l36", Line34(Frame))
    /\ passed' = passed \cup {env.A1B2, env.A2B1}
ShiftLeft == Step("l36", "l37", Line36(Frame)) /\ UNCHANGED passed
ShiftMiddle == Step("l37", "l38", Line37(Frame)) /\ UNCHANGED passed
BindRight == Step("l38", "l40", Line38(Frame)) /\ UNCHANGED passed
MidSum ==
    /\ Step("l40", "l41", Line40(Frame))
    /\ passed' = passed \cup {env.Left, env.Middle}
FinalSum ==
    /\ Step("l41", "l43", Line41(Frame))
    /\ passed' = passed \cup {env.mid_sum, env.Right}
FitLength == Step("l43", "l44", Line43(Frame)) /\ UNCHANGED passed
ReturnSum == Step("l44", "returned", Line44(Frame)) /\ UNCHANGED passed
ReturnBase == Step("l46", "returned", Line46(Frame)) /\ UNCHANGED passed

\* the caller calls binary_add(X, Y) on its two lists
CallAdd ==
    /\ prog = "binary_add"
    /\ pc = "call"
    /\ heap' = binary_add(heap, 1, 2).heap
    /\ ret' = binary_add(heap, 1, 2).ret
    /\ pc' = "returned"
    /\ UNCHANGED <<prog, env, length, entry, passed>>

\* the caller calls pad_same_length(X, Y) on its two lists (returns None)
CallPad ==
    /\ prog = "pad_same_length"
    /\ pc = "call"
    /\ heap' = pad_same_length(heap, 1, 2)
    /\ pc' = "returned"
    /\ UNCHANGED <<prog, env, length, ret, entry, passed>>

Next ==
    \/ Enter \/ SplitA \/ SplitB
    \/ PadA1B1 \/ PadA1B2 \/ PadA2B1 \/ PadA2B2
    \/ MultA1B1 \/ MultA1B2 \/ MultA2B1 \/ MultA2B2
    \/ CrossSum \/ ShiftLeft \/ ShiftMiddle \/ BindRight
    \/ MidSum \/ FinalSum \/ FitLength
    \/ ReturnSum \/ ReturnBase
    \/ CallAdd \/ CallPad

Spec == Init /\ [][Next]_vars

----------------------------------------------------------------------------
(* Properties *)

\* the binary representation of v in w bits, MSB first
ToBits(v, w) == [i \in 1..w |-> (v \div 2^(w - i)) % 2]

\* s with zero bits prepended up to length n
ZeroExtended(s, n) == Zeros(n - Len(s)) \o s

IsMult == prog = "binary_mult"
\* the precondition of binary_mult: len(A) == len(B), len(A) > 0
Pre == Len(entry[1]) = Len(entry[2]) /\ Len(entry[1]) > 0
Returned == pc = "returned"
N == Len(entry[1])
Product == value(entry[1]) * value(entry[2])

\* C1: for every n >= 1 and all n-bit A, B, binary_mult(A, B) returns a bit
\* sequence whose value is value(A) * value(B); in particular
\* binary_mult([0,1,1],[1,0,0]) returns [0,0,1,1,0,0].
C1_ProductForEveryLength ==
    (IsMult /\ Pre /\ Returned) =>
        /\ value(heap[ret]) = Product
        /\ (entry = <<<<0, 1, 1>>, <<1, 0, 0>>>> => heap[ret] = <<0, 0, 1, 1, 0, 0>>)

\* C2: for all valid inputs of length n >= 1, the base case n = 1 included,
\* the returned sequence has exactly 2*n elements.
C2_OutputWidth ==
    (IsMult /\ Pre /\ Returned) => Len(heap[ret]) = 2 * N

\* C3: a call that violates the precondition (unequal lengths, or an empty
\* input) ends in an error and never returns a bit sequence.
C3_PreconditionViolationRaises ==
    (IsMult /\ ~Pre) => ~Returned

\* C4: binary_mult leaves the caller's lists A and B unchanged: when the call
\* has returned they hold what they held when it was made.
C4_CallerListsUnchanged ==
    (IsMult /\ Returned) => (heap[1] = entry[1] /\ heap[2] = entry[2])

\* C4 witness: a call on odd-length operands has returned, its half A1 was
\* padded in place and lists were reversed in place by binary_add.
C4_Witness ==
    /\ IsMult /\ Pre /\ Returned
    /\ N = 3
    /\ Len(heap[env.A1]) > N \div 2
    /\ passed # {}
    /\ heap[env.A2B2] # Reverse(heap[env.A2B2])

C6_AddValue ==
    (prog = "binary_add" /\ Returned) =>
        value(heap[ret]) = value(entry[1]) + value(entry[2])

\* C6 witness: operands of unequal lengths were added and the sum carried out
\* of the padded length.
C6_Witness ==
    /\ prog = "binary_add" /\ Returned
    /\ Len(entry[1]) = 4 /\ Len(entry[2]) = 3
    /\ Len(heap[ret]) = 5

C8_HalvesCommonLength ==
    (IsMult /\ Pre /\ pc \in {"l29", "l30", "l31", "l32"}) =>
        /\ Len(heap[env.A1]) = Len(heap[env.B1])
        /\ Len(heap[env.A1]) = Len(heap[env.A2])
        /\ Len(heap[env.A1]) = Len(heap[env.B2])
        /\ Len(heap[env.A1]) % 2 = 0 \/ Len(heap[env.A1]) = 1

\* C8 witness: odd n = 5, where A1 (2 bits when split) was padded again by
\* the later pairings; the second recursive call is about to be made.
C8_Witness ==
    /\ IsMult /\ Pre
    /\ N = 5
    /\ pc = "l30"
    /\ Len(heap[env.A1]) = 4

\* C9: with equal-length inputs of length n > 1, length_modifier(final_sum, n)
\* never removes a 1 bit: final_sum has at least 2*n bits, every leading bit
\* dropped is 0, and the value is the same before and after.
C9_FitLengthDropsOnlyZeros ==
    (IsMult /\ Pre /\ pc = "l43") =>
        /\ Len(heap[env.final_sum]) >= 2 * length
        /\ \A i \in 1..(Len(heap[env.final_sum]) - 2 * length) :
              heap[env.final_sum][i] = 0
        /\ value(length_modifier(heap, env.final_sum, length)[env.final_sum])
              = value(heap[env.final_sum])

\* C9 witness: final_sum is longer than 2*n bits, so bits are dropped, and
\* it is not zero.
C9_Witness ==
    /\ IsMult /\ Pre
    /\ pc = "l43"
    /\ Len(heap[env.final_sum]) > 2 * length
    /\ value(heap[env.final_sum]) > 0

\* C10: binary_add does not restore its operands: when it returns, X and Y
\* each hold the reverse of their zero-padded entry contents; and within
\* binary_mult no line reads a list that was already passed to binary_add.
C10_AddLeavesOperandsReversed ==
    /\ (prog = "binary_add" /\ Returned) =>
          \A i \in {1, 2} :
              /\ Len(heap[i]) >= Len(entry[i])
              /\ heap[i] = Reverse(ZeroExtended(entry[i], Len(heap[i])))
    /\ IsMult => \A v \in LineReads(pc) : env[v] \notin passed

\* C10 witness: binary_add returned and left a non-palindromic operand
\* changed.
C10_Witness ==
    /\ prog = "binary_add" /\ Returned
    /\ heap[1] # ZeroExtended(entry[1], Len(heap[1]))
    /\ heap[2] # ZeroExtended(entry[2], Len(heap[2]))

====
